---- MODULE Spec2Model ----
(***************************************************************************)
(* git-fresh: stash -> wipe -> restore -> pop of a Git working directory.  *)
(*                                                                         *)
(* The model follows src/src/index.ts (gitFresh with protected files) and  *)
(* the earlier version of the same file without protected files            *)
(* (src/unnamed/part_001), driven by src/src/cli.ts.                       *)
(*                                                                         *)
(* A path is a sequence of names ("d/j.txt" is <<"d", "j.txt">>); the      *)
(* directory '.' is the empty sequence.  The file system is a function     *)
(* from the file paths of the universe to a content version, 0 meaning     *)
(* that the file does not exist; a directory exists while a file exists    *)
(* beneath it.  Git is the external collaborator: its commands act on the  *)
(* working tree and on the stash list as git documents them, and each may  *)
(* fail.  The index is taken to equal HEAD (nothing is staged).            *)
(***************************************************************************)
EXTENDS Integers, Sequences, FiniteSets, TLC

VARIABLES
    impl,           \* "index" (src/src/index.ts) or "part_001" (src/unnamed/part_001)
    opts,           \* GitFreshOptions handed over by cli.ts
    fs,             \* the directory tree on disk: file path -> content version
    head,           \* the last commit: file path -> content version
    gitignored,     \* the untracked paths .gitignore hides from git
    stashList,      \* git's stash list, newest entry first
    filesToIgnore,  \* gitFresh's local: the protected paths, in push order
    stashCreated,   \* gitFresh's local
    pc,             \* position of the run inside gitFresh / cli.ts
    trace,          \* the phases of the orchestrator entered so far
    statusResult,   \* outcome of 'git status --porcelain': "none", "changes", "clean", "failed"
    gitCmds,        \* the git commands issued so far
    rmCalls,        \* the paths handed to rmSync so far
    out,            \* the messages printed so far
    err,            \* message of the error gitFresh threw, "" when none
    exitCode,       \* process exit code, -1 while the process runs
    fs0,            \* the tree when the run started
    stash0,         \* the stash list when the run started
    fsWipe,         \* the tree when the wipe started
    answer,         \* what the user answered to the prompt, NoAnswer while not asked
    lsCalls         \* the directories handed to readdirSync by the wipe so far

vars == << impl, opts, fs, head, gitignored, stashList, filesToIgnore,
           stashCreated, pc, trace, statusResult, gitCmds, rmCalls, out, err,
           exitCode, fs0, stash0, fsWipe, answer, lsCalls >>

-----------------------------------------------------------------------------
(* Bounds *)

\* content versions a file may have (0 is "absent")
MaxVersion == 2
\* stash entries that exist before the run
MaxPreStash == 1
\* file-system faults injected into one wipe
MaxFaults == 1
\* protected paths handed to a wipe that is checked on its own
MaxProtected == 2

-----------------------------------------------------------------------------
(* Paths *)

GitDir == << ".git" >>
RootDir == << >>

\* the files a run of gitFresh is started on
RunFiles == { <<"a.txt">>, <<"s.local">>, <<".env">>,
              <<"d", "j.txt">>, <<"d", "k.local">> }
\* the files git tracks in some commit
TrackedFiles == { <<"a.txt">> }
\* all file paths of the universe
AllFiles == RunFiles \cup { <<"d", "e", "m.local">>, <<".env.local">>, <<".git", "HEAD">> }

\* ignoredFile.startsWith(itemPath + '/')
startsWithDir(ignoredFile, itemPath) ==
    /\ Len(ignoredFile) > Len(itemPath)
    /\ SubSeq(ignoredFile, 1, Len(itemPath)) = itemPath

Range(s) == { s[i] : i \in DOMAIN s }

\* the files that exist
Files(fsys) == { f \in DOMAIN fsys : fsys[f] # 0 }

\* the directories that exist: the proper non-empty prefixes of existing files
Dirs(fsys) == UNION { { SubSeq(f, 1, n) : n \in 1..(Len(f) - 1) } : f \in Files(fsys) }

Entries(fsys) == Files(fsys) \cup Dirs(fsys)

existsSync(fsys, p) == p \in Entries(fsys)

\* statSync(p).isDirectory()
isDirectory(fsys, p) == \E f \in Files(fsys) : startsWithDir(f, p)

\* readdirSync(dirPath): the names of the immediate children
readdirSync(fsys, dirPath) ==
    { f[Len(dirPath) + 1] : f \in { g \in Files(fsys) : startsWithDir(g, dirPath) } }

\* the entries at or beneath p
Under(p) == { f \in AllFiles : f = p \/ startsWithDir(f, p) }

\* every entry path of the universe, files and directories
AllEntries == AllFiles \cup UNION { { SubSeq(f, 1, n) : n \in 1..(Len(f) - 1) } : f \in AllFiles }

-----------------------------------------------------------------------------
(* Selective wipe: removeAllExceptGitAndIgnored, index.ts 123-195 *)

\* A fault is an entry the file system refuses to delete ("rm"), to stat
\* ("stat") or to list ("readdir").
AllFaults == { [kind |-> k, path |-> p] : k \in { "rm", "stat" }, p \in AllEntries }
                \cup { [kind |-> "readdir", path |-> p] :
                         p \in (AllEntries \ AllFiles) \cup { RootDir } }

\* the files beneath p that rmSync cannot delete
Stuck(fsys, p, faults) ==
    { f \in Files(fsys) :
        /\ f = p \/ startsWithDir(f, p)
        /\ \E u \in faults : u.kind = "rm" /\ (f = u.path \/ startsWithDir(f, u.path)) }

\* rmSync(p, { recursive: true, force: true }) throws when an entry is stuck
rmThrows(fsys, p, faults) == Stuck(fsys, p, faults) # {}

\* rmSync(p, { recursive: true, force: true }): the tree afterwards
rmSync(fsys, p, faults) ==
    LET stuck == Stuck(fsys, p, faults)
    IN  [ f \in AllFiles |-> IF (f = p \/ startsWithDir(f, p)) /\ f \notin stuck THEN 0 ELSE fsys[f] ]

statThrows(p, faults) == [kind |-> "stat", path |-> p] \in faults

readdirThrows(dirPath, faults) == [kind |-> "readdir", path |-> dirPath] \in faults

\* shouldPreservePath without the exact-match test of index.ts 135-137
shouldPreservePath_noExactMatch(itemPath, ignoredFiles) ==
    IF itemPath = GitDir THEN TRUE
    ELSE \E i \in DOMAIN ignoredFiles : startsWithDir(ignoredFiles[i], itemPath)

\* shouldPreservePath without the .git test of index.ts 130-132
shouldPreservePath_noGitTest(itemPath, ignoredFiles) ==
    IF itemPath \in Range(ignoredFiles) THEN TRUE
    ELSE \E i \in DOMAIN ignoredFiles : startsWithDir(ignoredFiles[i], itemPath)

\* shouldPreservePath without the ancestor test of index.ts 139-144
shouldPreservePath_noAncestorTest(itemPath, ignoredFiles) ==
    IF itemPath = GitDir THEN TRUE
    ELSE itemPath \in Range(ignoredFiles)

\* index.ts 128-147
shouldPreservePath(itemPath, ignoredFiles) ==
    IF itemPath = GitDir THEN TRUE
    ELSE IF itemPath \in Range(ignoredFiles) THEN TRUE
    ELSE \E i \in DOMAIN ignoredFiles : startsWithDir(ignoredFiles[i], itemPath)

\* index.ts 165-171
hasPreservedContent(itemPath, ignoredFiles) ==
    \E i \in DOMAIN ignoredFiles : startsWithDir(ignoredFiles[i], itemPath)

\* a printed message: the console method (or "spinner" for ora), its text and
\* the path it names (RootDir when it names none)
Msg(via, text, path) == [ via |-> via, text |-> text, path |-> path ]

\* the state a walk threads through: the tree, the paths handed to rmSync,
\* the warnings printed, the directories handed to readdirSync
WipeState(fsys) == [ fs |-> fsys, rm |-> {}, warn |-> {}, ls |-> {} ]

RECURSIVE processDirectory(_, _, _, _)

\* the body of the for loop with an empty inner catch: a failure is caught
\* and not reported
processItem_withoutWarning(st, itemPath, ignoredFiles, faults) ==
    IF shouldPreservePath(itemPath, ignoredFiles) THEN st
    ELSE IF statThrows(itemPath, faults) THEN st
    ELSE IF isDirectory(st.fs, itemPath) /\ hasPreservedContent(itemPath, ignoredFiles)
    THEN processDirectory(st, itemPath, ignoredFiles, faults)
    ELSE [ fs   |-> rmSync(st.fs, itemPath, faults),
           rm   |-> st.rm \cup { itemPath },
           ls   |-> st.ls,
           warn |-> st.warn ]

\* the body of the for loop, index.ts 155-186
processItem(st, itemPath, ignoredFiles, faults) ==
    IF shouldPreservePath(itemPath, ignoredFiles) THEN st
    ELSE IF statThrows(itemPath, faults)
    THEN [ st EXCEPT !.warn = @ \cup { Msg("warn", "Warning: Could not remove", itemPath) } ]
    ELSE IF isDirectory(st.fs, itemPath) /\ hasPreservedContent(itemPath, ignoredFiles)
    THEN processDirectory(st, itemPath, ignoredFiles, faults)
    ELSE [ fs   |-> rmSync(st.fs, itemPath, faults),
           rm   |-> st.rm \cup { itemPath },
           ls   |-> st.ls,
           warn |-> IF rmThrows(st.fs, itemPath, faults)
                    THEN st.warn \cup { Msg("warn", "Warning: Could not remove", itemPath) }
                    ELSE st.warn ]

RECURSIVE processItems(_, _, _, _, _)
\* the for loop over dirItems, index.ts 154-187
processItems(st, dirPath, dirItems, ignoredFiles, faults) ==
    IF dirItems = {} THEN st
    ELSE LET item == CHOOSE i \in dirItems : TRUE
             itemPath == dirPath \o << item >>
         IN  processItems(processItem(st, itemPath, ignoredFiles, faults),
                          dirPath, dirItems \ { item }, ignoredFiles, faults)

\* index.ts 150-191
processDirectory(st, dirPath, ignoredFiles, faults) ==
    IF readdirThrows(dirPath, faults)
    THEN [ st EXCEPT !.warn = @ \cup { Msg("warn", "Warning: Could not read directory", dirPath) },
                     !.ls = @ \cup { dirPath } ]
    ELSE processItems([ st EXCEPT !.ls = @ \cup { dirPath } ], dirPath,
                      readdirSync(st.fs, dirPath), ignoredFiles, faults)

\* index.ts 123-195; threw: the unguarded readdirSync('.') of line 124 failed
removeAllExceptGitAndIgnored(fsys, ignoredFiles, faults) ==
    IF readdirThrows(RootDir, faults)
    THEN [ threw |-> TRUE, st |-> [ WipeState(fsys) EXCEPT !.ls = { RootDir } ] ]
    ELSE [ threw |-> FALSE,
           st |-> processDirectory([ WipeState(fsys) EXCEPT !.ls = { RootDir } ],
                                   RootDir, ignoredFiles, faults) ]

\* the body of the for loop of the version without protected files, part_001 42-57
removeItem(st, item, faults) ==
    IF item = GitDir THEN st
    ELSE IF statThrows(item, faults)
    THEN [ st EXCEPT !.warn = @ \cup { Msg("warn", "Warning: Could not remove", item) } ]
    ELSE [ fs   |-> rmSync(st.fs, item, faults),
           rm   |-> st.rm \cup { item },
           ls   |-> st.ls,
           warn |-> IF rmThrows(st.fs, item, faults)
                    THEN st.warn \cup { Msg("warn", "Warning: Could not remove", item) }
                    ELSE st.warn ]

RECURSIVE removeItems(_, _, _)
removeItems(st, items, faults) ==
    IF items = {} THEN st
    ELSE LET item == CHOOSE i \in items : TRUE
         IN  removeItems(removeItem(st, << item >>, faults), items \ { item }, faults)

\* part_001 39-58
removeAllExceptGit(fsys, faults) ==
    IF readdirThrows(RootDir, faults)
    THEN [ threw |-> TRUE, st |-> [ WipeState(fsys) EXCEPT !.ls = { RootDir } ] ]
    ELSE [ threw |-> FALSE,
           st |-> removeItems([ WipeState(fsys) EXCEPT !.ls = { RootDir } ],
                              readdirSync(fsys, RootDir), faults) ]

-----------------------------------------------------------------------------
(* Protected-pattern matcher: glob(pattern, { dot: true, ignore: [...] }) *)

\* the characters of a name, cut where a pattern can tell them apart
Tok(name) ==
    CASE name = "a.txt"   -> << "a", ".", "txt" >>
      [] name = "j.txt"   -> << "j", ".", "txt" >>
      [] name = "s.local" -> << "s", ".", "local" >>
      [] name = "k.local" -> << "k", ".", "local" >>
      [] name = "m.local" -> << "m", ".", "local" >>
      [] name = ".env"    -> << ".", "env" >>
      [] name = ".env.local" -> << ".", "env", ".", "local" >>
      [] name = ".git"    -> << ".", "git" >>
      [] name = "HEAD"    -> << "HEAD" >>
      [] name = "d"       -> << "d" >>
      [] name = "e"       -> << "e" >>
      [] name = "node_modules" -> << "node_modules" >>

\* a pattern is a sequence of segments; a segment is a sequence of literal
\* pieces and "*"; the segment << "**" >> is the globstar
GlobStar == << "**" >>
NoPattern == << >>                                          \* flag absent
PatLocal == << << "*", ".", "local" >> >>                   \* "*.local"
PatAnyLocal == << GlobStar, << "*", ".", "local" >> >>      \* "**/*.local"
PatDir == << << "d" >>, GlobStar >>                         \* "d/**"
GlobPatterns == { PatLocal, PatAnyLocal, PatDir }
PatStar == << << "*" >> >>                                  \* "*"
PatAnyStar == << GlobStar, << "*" >> >>                     \* "**/*"
PatDotStar == << << ".", "*" >> >>                          \* ".*"
PatAnyEnv == << GlobStar, << ".", "env" >> >>               \* "**/.env"

\* the battery of findEnvFiles, index.ts 48-57
EnvPatterns ==
    { << << ".", "env" >> >>,                       \* '.env'
      << << ".", "env", ".", "*" >> >>,             \* '.env.*'
      << << "*", ".", "env" >> >>,                  \* '*.env'
      << << ".", "*", ".", "env" >> >>,             \* '.*.env'
      << GlobStar, << ".", "env" >> >>,             \* '**/.env'
      << GlobStar, << ".", "env", ".", "*" >> >>,   \* '**/.env.*'
      << GlobStar, << ".", "*", "env" >> >>,        \* '**/.*env'
      << GlobStar, << "*", ".", "env" >> >> }       \* '**/*.env'

RECURSIVE MatchName(_, _)
\* one segment against one name; with dot: true "*" also matches a leading dot
MatchName(seg, toks) ==
    IF seg = << >> THEN toks = << >>
    ELSE IF Head(seg) = "*"
    THEN \E k \in 0..Len(toks) : MatchName(Tail(seg), SubSeq(toks, k + 1, Len(toks)))
    ELSE /\ toks # << >>
         /\ Head(toks) = Head(seg)
         /\ MatchName(Tail(seg), Tail(toks))

RECURSIVE MatchPath(_, _)
\* a pattern against a path; the globstar stands for zero or more names
MatchPath(pattern, path) ==
    IF pattern = << >> THEN path = << >>
    ELSE IF Head(pattern) = GlobStar
    THEN \/ MatchPath(Tail(pattern), path)
         \/ path # << >> /\ MatchPath(pattern, Tail(path))
    ELSE /\ path # << >>
         /\ MatchName(Head(pattern), Tok(Head(path)))
         /\ MatchPath(Tail(pattern), Tail(path))

\* ignore: ['node_modules/**', '.git/**'], index.ts 65 and 204
globIgnored(path) == path[1] \in { "node_modules", ".git" }

\* glob without dot: true: an entry whose name starts with a dot matches
\* only a segment that starts with a literal dot
glob_withoutDot(pattern, fsys) ==
    { p \in Entries(fsys) :
        /\ MatchPath(pattern, p)
        /\ ~ globIgnored(p)
        /\ Head(Tok(p[Len(p)])) = "." => Head(pattern[Len(pattern)]) = "." }

\* glob(pattern, { dot: true, ignore }): the entries that match
glob(pattern, fsys) ==
    { p \in Entries(fsys) : MatchPath(pattern, p) /\ ~ globIgnored(p) }

\* the entry paths in the order of Array.prototype.sort (UTF-16 code units)
SortedEntries ==
    << <<".env">>, <<".env.local">>, <<".git">>, <<".git", "HEAD">>, <<"a.txt">>, <<"d">>,
       <<"d", "e">>, <<"d", "e", "m.local">>, <<"d", "j.txt">>,
       <<"d", "k.local">>, <<"d", "node_modules">>, <<"d", "node_modules", ".env">>,
       <<"node_modules">>, <<"node_modules", ".env">>, <<"s.local">> >>

\* Array.from(set).sort()
sort(S) == SelectSeq(SortedEntries, LAMBDA p : p \in S)

\* index.ts 200-211
findGlobFiles(pattern, fsys) == sort(glob(pattern, fsys))

\* index.ts 47-74
findEnvFiles(fsys) == sort(UNION { glob(pattern, fsys) : pattern \in EnvPatterns })

-----------------------------------------------------------------------------
(* Git, the external collaborator *)

\* the working-tree files, everything outside .git
WorkFiles == { f \in AllFiles : f[1] # ".git" }

\* the working tree: the part of the tree outside .git
WorkTree(fsys) == [ f \in WorkFiles |-> fsys[f] ]

\* the paths 'git status --porcelain' lists: tracked files that differ from
\* the commit (modified or deleted) and untracked files that are not ignored
Changes(fsys, hd, ign) ==
    { f \in WorkFiles :
        \/ hd[f] # 0 /\ fsys[f] # hd[f]
        \/ hd[f] = 0 /\ fsys[f] # 0 /\ f \notin ign }

\* the entry a 'git stash push' without -u records: tracked changes only
StashEntry_withoutUntracked(fsys, hd, ign) ==
    [ msg     |-> "git-fresh: temporary stash",
      paths   |-> { f \in Changes(fsys, hd, ign) : hd[f] # 0 },
      content |-> [ f \in WorkFiles |->
                      IF f \in Changes(fsys, hd, ign) /\ hd[f] # 0 THEN fsys[f] ELSE 0 ] ]

\* the entry 'git stash push -u -m "git-fresh: temporary stash"' records
StashEntry(fsys, hd, ign) ==
    [ msg     |-> "git-fresh: temporary stash",
      paths   |-> Changes(fsys, hd, ign),
      content |-> [ f \in WorkFiles |-> IF f \in Changes(fsys, hd, ign) THEN fsys[f] ELSE 0 ] ]

\* the tree 'git stash push -u' leaves: every stashed path back at the commit,
\* so a stashed untracked file is gone from the working tree
StashPushTree(fsys, hd, ign) ==
    [ f \in AllFiles |-> IF f \in Changes(fsys, hd, ign) THEN hd[f] ELSE fsys[f] ]

\* the tree 'git restore .' leaves: every tracked file as committed
RestoreTree(fsys, hd) ==
    [ f \in AllFiles |-> IF f \in WorkFiles /\ hd[f] # 0 THEN hd[f] ELSE fsys[f] ]

\* 'git stash pop' refuses to overwrite an untracked file
PopApplies(fsys, hd, entry) ==
    \A f \in entry.paths : hd[f] = 0 => fsys[f] = 0

\* the tree 'git stash pop' leaves when it succeeds
StashPopTree(fsys, entry) ==
    [ f \in AllFiles |-> IF f \in entry.paths THEN entry.content[f] ELSE fsys[f] ]

\* how far a 'git stash pop' that fails may have got: nothing applied, the
\* untracked files put back, or every path applied with the entry still kept
PopProgress == { "none", "untracked", "all" }

\* the tree a failed 'git stash pop' leaves
StashPopFailTree(fsys, hd, entry, applied) ==
    [ f \in AllFiles |->
        IF /\ f \in entry.paths
           /\ \/ applied = "all" /\ (hd[f] = 0 => fsys[f] = 0)
              \/ applied = "untracked" /\ hd[f] = 0 /\ fsys[f] = 0
        THEN entry.content[f] ELSE fsys[f] ]

\* 'git restore .' fails with "pathspec '.' did not match any file(s) known
\* to git" when git tracks no file
RestoreMatches(hd) == \E f \in WorkFiles : hd[f] # 0

-----------------------------------------------------------------------------
(* The run: gitFresh (index.ts 216-315, part_001 63-116) under cli.ts *)

Phases == { "Init", "DirtyCheck", "Stashing", "Wiping", "Restoring", "Popping", "Done" }

StatusCmd == "status --porcelain"
StashPushCmd == "stash push -u -m \"git-fresh: temporary stash\""
RestoreCmd == "restore ."
StashPopCmd == "stash pop"

NoError == [ wrapped |-> FALSE, msg |-> "" ]
\* the catch of index.ts 312-314 rethrowing the error as it came
Wrapped_rethrown(msg) == [ wrapped |-> FALSE, msg |-> msg ]

\* the catch of index.ts 312-314 wraps whatever the try block threw
Wrapped(msg) == [ wrapped |-> TRUE, msg |-> msg ]

NotARepoMsg == "This is not a Git repository. Please run this command in a Git repository."
StashFailedMsg == "Cannot proceed: Failed to stash changes. Your files are safe, but git-fresh cannot continue without successfully stashing changes."
RestoreFailedMsg == "Git command failed: restore ."
StashListHint == "Run \"git stash list\" to see your stashed changes"
SuccessMsg == "Git working directory reset successfully!"
ProtectedMsg == "Protected files were preserved and remain untouched."

\* index.ts 17-19
isGitRepository(fsys) == existsSync(fsys, GitDir)

\* index.ts 35-42: ok is whether 'git status --porcelain' ran
hasChangesToStash(ok, fsys, hd, ign) ==
    IF ok THEN Changes(fsys, hd, ign) # {} ELSE FALSE

RECURSIVE SubsetsUpTo(_, _)
\* the subsets of S with at most k elements
SubsetsUpTo(S, k) ==
    IF k = 0 THEN { {} }
    ELSE LET prev == SubsetsUpTo(S, k - 1)
         IN  prev \cup { T \cup { x } : T \in prev, x \in S }

\* the faults that can strike a wipe of the tree
FaultSets(fsys) ==
    SubsetsUpTo({ u \in AllFaults : u.path \in Entries(fsys) \cup { RootDir } }, MaxFaults)

\* a stash entry left by earlier work of the user
PreEntry(i) ==
    [ msg     |-> "WIP",
      paths   |-> { <<"a.txt">> },
      content |-> [ f \in WorkFiles |-> IF f = <<"a.txt">> THEN i ELSE 0 ] ]

\* the prompt of index.ts 86-117 was not shown
NoAnswer == [ action |-> "", selectedFiles |-> {} ]

NoFlags == [ ignoreEnvFiles |-> FALSE, skipConfirmation |-> FALSE, ignoreGlobFiles |-> NoPattern ]

Init ==
    /\ impl \in { "index", "part_001" }
    /\ opts \in [ ignoreEnvFiles : BOOLEAN, skipConfirmation : BOOLEAN,
                  ignoreGlobFiles : GlobPatterns \cup { NoPattern } ]
    /\ impl = "part_001" => opts = NoFlags
    /\ head \in [ AllFiles -> 0..1 ]
    /\ \A f \in AllFiles \ TrackedFiles : head[f] = 0
    /\ fs \in [ AllFiles -> 0..MaxVersion ]
    /\ \A f \in AllFiles \ TrackedFiles : fs[f] <= 1
    /\ \A f \in AllFiles \ (RunFiles \cup { <<".git", "HEAD">> }) : fs[f] = 0
    /\ gitignored \in { {}, { <<".env">> } }
    /\ \E n \in 0..MaxPreStash : stashList = [ i \in 1..n |-> PreEntry(i) ]
    /\ ~ isGitRepository(fs) =>
          /\ stashList = << >>
          /\ gitignored = {}
          /\ \A f \in AllFiles : head[f] = 0
    /\ filesToIgnore = << >>
    /\ stashCreated = FALSE
    /\ pc = "Init"
    /\ trace = << "Init" >>
    /\ statusResult = "none"
    /\ gitCmds = << >>
    /\ rmCalls = {}
    /\ out = {}
    /\ err = NoError
    /\ exitCode = -1
    /\ fs0 = fs
    /\ stash0 = stashList
    /\ fsWipe = fs
    /\ answer = NoAnswer
    /\ lsCalls = {}

\* InitCheck without the test of index.ts 219-222: the run goes on in a
\* directory that is not a repository
InitCheck_withoutRepositoryTest ==
    /\ pc = "Init"
    /\ pc' = IF impl = "index" THEN "ResolveGlob" ELSE "DirtyCheck"
    /\ err' = err
    /\ trace' = IF impl = "index" THEN trace ELSE Append(trace, "DirtyCheck")
    /\ UNCHANGED << lsCalls, answer, impl, opts, fs, head, gitignored, stashList, filesToIgnore,
                    stashCreated, statusResult, gitCmds, rmCalls, out, exitCode,
                    fs0, stash0, fsWipe >>

\* index.ts 219-222, part_001 66-69
InitCheck ==
    /\ pc = "Init"
    /\ IF ~ isGitRepository(fs)
       THEN /\ pc' = "Failed"
            /\ err' = [ wrapped |-> FALSE, msg |-> NotARepoMsg ]
            /\ trace' = trace
       ELSE /\ pc' = IF impl = "index" THEN "ResolveGlob" ELSE "DirtyCheck"
            /\ err' = err
            /\ trace' = IF impl = "index" THEN trace ELSE Append(trace, "DirtyCheck")
    /\ UNCHANGED << lsCalls, answer, impl, opts, fs, head, gitignored, stashList, filesToIgnore,
                    stashCreated, statusResult, gitCmds, rmCalls, out, exitCode,
                    fs0, stash0, fsWipe >>

\* index.ts 226-238
ResolveGlob ==
    /\ pc = "ResolveGlob"
    /\ IF opts.ignoreGlobFiles # NoPattern
       THEN LET globFiles == findGlobFiles(opts.ignoreGlobFiles, fs)
            IN  IF Len(globFiles) > 0
                THEN /\ filesToIgnore' = filesToIgnore \o globFiles
                     /\ out' = out \cup { Msg("log", "Protecting file(s) matching pattern", RootDir) }
                ELSE /\ filesToIgnore' = filesToIgnore
                     /\ out' = out \cup { Msg("log", "No files found matching pattern", RootDir) }
       ELSE UNCHANGED << filesToIgnore, out >>
    /\ pc' = "ResolveEnv"
    /\ UNCHANGED << lsCalls, answer, impl, opts, fs, head, gitignored, stashList, stashCreated,
                    trace, statusResult, gitCmds, rmCalls, err, exitCode, fs0,
                    stash0, fsWipe >>

\* ResolveEnv without the test of skipConfirmation (index.ts 244): the
\* user is asked whenever env files are found
ResolveEnv_withoutSkip ==
    /\ pc = "ResolveEnv"
    /\ IF opts.ignoreEnvFiles
       THEN IF Len(findEnvFiles(fs)) > 0
            THEN /\ out' = out \cup { Msg("log", "Environment files detected:", RootDir) }
                 /\ pc' = "Prompt"
            ELSE /\ out' = out \cup { Msg("log", "No environment files found", RootDir) }
                 /\ pc' = "DirtyCheck"
       ELSE /\ out' = out
            /\ pc' = "DirtyCheck"
    /\ trace' = IF pc' = "DirtyCheck" THEN Append(trace, "DirtyCheck") ELSE trace
    /\ UNCHANGED << lsCalls, answer, impl, opts, fs, head, gitignored, stashList, stashCreated,
                    statusResult, gitCmds, rmCalls, err, exitCode, fs0, stash0,
                    fsWipe, filesToIgnore >>

\* index.ts 240-264, up to the call of selectEnvFilesToIgnore
ResolveEnv ==
    /\ pc = "ResolveEnv"
    /\ IF opts.ignoreEnvFiles
       THEN LET envFiles == findEnvFiles(fs)
            IN  IF Len(envFiles) > 0
                THEN IF opts.skipConfirmation
                     THEN /\ filesToIgnore' = filesToIgnore \o envFiles
                          /\ out' = out \cup { Msg("log", "Protecting environment file(s) from removal", RootDir) }
                          /\ pc' = "DirtyCheck"
                     ELSE /\ filesToIgnore' = filesToIgnore
                          /\ out' = out \cup { Msg("log", "Environment files detected:", RootDir) }
                          /\ pc' = "Prompt"
                ELSE /\ filesToIgnore' = filesToIgnore
                     /\ out' = out \cup { Msg("log", "No environment files found", RootDir) }
                     /\ pc' = "DirtyCheck"
       ELSE /\ UNCHANGED << filesToIgnore, out >>
            /\ pc' = "DirtyCheck"
    /\ trace' = IF pc' = "DirtyCheck" THEN Append(trace, "DirtyCheck") ELSE trace
    /\ UNCHANGED << lsCalls, answer, impl, opts, fs, head, gitignored, stashList, stashCreated,
                    statusResult, gitCmds, rmCalls, err, exitCode, fs0, stash0,
                    fsWipe >>

\* selectEnvFilesToIgnore returning every detected file on 'select'
selectEnvFilesToIgnore_withoutSelection(envFiles, action, selectedFiles) ==
    IF Len(envFiles) = 0 THEN << >>
    ELSE IF action = "none" THEN << >>
    ELSE envFiles

\* index.ts 79-118: what the user's answers make selectEnvFilesToIgnore return
selectEnvFilesToIgnore(envFiles, action, selectedFiles) ==
    IF Len(envFiles) = 0 THEN << >>
    ELSE IF action = "all" THEN envFiles
    ELSE IF action = "none" THEN << >>
    ELSE SelectSeq(envFiles, LAMBDA f : f \in selectedFiles)

\* Prompt whose rejection is caught and taken as the answer 'none': the
\* run goes on
Prompt_rejectionMeansNone ==
    /\ pc = "Prompt"
    /\ \/ \E action \in { "all", "none", "select" } :
          \E selectedFiles \in IF action = "select" THEN SUBSET Range(findEnvFiles(fs)) ELSE { {} } :
            LET selectedEnvFiles == selectEnvFilesToIgnore(findEnvFiles(fs), action, selectedFiles)
            IN  /\ filesToIgnore' = filesToIgnore \o selectedEnvFiles
                /\ out' = IF Len(selectedEnvFiles) > 0
                          THEN out \cup { Msg("log", "Will protect environment file(s):", RootDir) }
                          ELSE out
                /\ answer' = [ action |-> action, selectedFiles |-> selectedFiles ]
       \/ /\ answer' = [ action |-> "rejected", selectedFiles |-> {} ]
          /\ UNCHANGED << filesToIgnore, out >>
    /\ pc' = "DirtyCheck"
    /\ trace' = Append(trace, "DirtyCheck")
    /\ UNCHANGED << lsCalls, impl, opts, fs, head, gitignored, stashList, stashCreated, err,
                    statusResult, gitCmds, rmCalls, exitCode, fs0, stash0, fsWipe >>

\* index.ts 252-259: the user answers the prompt, or the prompt rejects
Prompt ==
    /\ pc = "Prompt"
    /\ \/ \E action \in { "all", "none", "select" } :
          \E selectedFiles \in IF action = "select" THEN SUBSET Range(findEnvFiles(fs)) ELSE { {} } :
            LET selectedEnvFiles == selectEnvFilesToIgnore(findEnvFiles(fs), action, selectedFiles)
            IN  /\ filesToIgnore' = filesToIgnore \o selectedEnvFiles
                /\ out' = IF Len(selectedEnvFiles) > 0
                          THEN out \cup { Msg("log", "Will protect environment file(s):", RootDir) }
                          ELSE out
                /\ answer' = [ action |-> action, selectedFiles |-> selectedFiles ]
                /\ pc' = "DirtyCheck"
                /\ trace' = Append(trace, "DirtyCheck")
                /\ err' = err
       \/ /\ pc' = "Failed"
          /\ err' = [ wrapped |-> FALSE, msg |-> "prompt rejected" ]
          /\ answer' = [ action |-> "rejected", selectedFiles |-> {} ]
          /\ UNCHANGED << filesToIgnore, out, trace >>
    /\ UNCHANGED << lsCalls, impl, opts, fs, head, gitignored, stashList, stashCreated,
                    statusResult, gitCmds, rmCalls, exitCode, fs0, stash0, fsWipe >>

\* what the run prints on reaching the end of the try block, index.ts 306-310
DoneMsgs ==
    { Msg("log", SuccessMsg, RootDir) }
      \cup IF Len(filesToIgnore) > 0 THEN { Msg("log", ProtectedMsg, RootDir) } ELSE {}

\* index.ts 270 and 280-282, part_001 75 and 85-87
DirtyCheck ==
    /\ pc = "DirtyCheck"
    /\ \E ok \in BOOLEAN :
         /\ statusResult' = IF ~ ok THEN "failed"
                            ELSE IF Changes(fs, head, gitignored) # {} THEN "changes"
                            ELSE "clean"
         /\ IF hasChangesToStash(ok, fs, head, gitignored)
            THEN /\ pc' = "Stashing"
                 /\ trace' = Append(trace, "Stashing")
                 /\ out' = out
            ELSE /\ pc' = "Wiping"
                 /\ trace' = Append(trace, "Wiping")
                 /\ out' = out \cup { Msg("log", "No changes to stash", RootDir) }
    /\ gitCmds' = Append(gitCmds, StatusCmd)
    /\ UNCHANGED << lsCalls, answer, impl, opts, fs, head, gitignored, stashList, filesToIgnore,
                    stashCreated, rmCalls, err, exitCode, fs0, stash0, fsWipe >>

\* Stashing with the throw of index.ts 278 left out: a failed stash push is
\* reported and the run goes on to the wipe
Stashing_withoutThrow ==
    /\ pc = "Stashing"
    /\ gitCmds' = Append(gitCmds, StashPushCmd)
    /\ \/ /\ stashList' = << StashEntry(fs, head, gitignored) >> \o stashList
          /\ fs' = StashPushTree(fs, head, gitignored)
          /\ out' = out \cup { Msg("spinner", "Changes stashed successfully", RootDir) }
          /\ stashCreated' = TRUE
       \/ /\ out' = out \cup { Msg("spinner", "Failed to stash changes", RootDir) }
          /\ UNCHANGED << stashList, fs, stashCreated >>
    /\ pc' = "Wiping"
    /\ trace' = Append(trace, "Wiping")
    /\ UNCHANGED << lsCalls, answer, impl, opts, head, gitignored, filesToIgnore, statusResult,
                    rmCalls, err, exitCode, fs0, stash0, fsWipe >>

\* index.ts 271-279, part_001 76-84
Stashing ==
    /\ pc = "Stashing"
    /\ gitCmds' = Append(gitCmds, StashPushCmd)
    /\ \/ /\ stashList' = << StashEntry(fs, head, gitignored) >> \o stashList
          /\ fs' = StashPushTree(fs, head, gitignored)
          /\ out' = out \cup { Msg("spinner", "Changes stashed successfully", RootDir) }
          /\ stashCreated' = TRUE
          /\ pc' = "Wiping"
          /\ trace' = Append(trace, "Wiping")
          /\ err' = err
       \/ /\ out' = out \cup { Msg("spinner", "Failed to stash changes", RootDir) }
          /\ err' = Wrapped(StashFailedMsg)
          /\ pc' = "Failed"
          /\ UNCHANGED << stashList, fs, stashCreated, trace >>
    /\ UNCHANGED << lsCalls, answer, impl, opts, head, gitignored, filesToIgnore, statusResult,
                    rmCalls, exitCode, fs0, stash0, fsWipe >>

\* index.ts 284-287, part_001 89-92
Wiping ==
    /\ pc = "Wiping"
    /\ \E r \in { IF impl = "index"
                   THEN removeAllExceptGitAndIgnored(fs, filesToIgnore, faults)
                   ELSE removeAllExceptGit(fs, faults) : faults \in FaultSets(fs) } :
             /\ fs' = r.st.fs
             /\ rmCalls' = rmCalls \cup r.st.rm
             /\ lsCalls' = lsCalls \cup r.st.ls
             /\ IF r.threw
                THEN /\ pc' = "Failed"
                     /\ err' = Wrapped("readdirSync failed")
                     /\ out' = out
                     /\ trace' = trace
                ELSE /\ pc' = "Restoring"
                     /\ err' = err
                     /\ out' = out \cup r.st.warn
                                   \cup { Msg("spinner", "Files removed successfully", RootDir) }
                     /\ trace' = Append(trace, "Restoring")
    /\ fsWipe' = fs
    /\ UNCHANGED << answer, impl, opts, head, gitignored, stashList, filesToIgnore,
                    stashCreated, statusResult, gitCmds, exitCode, fs0, stash0 >>

\* Restoring whose failure is swallowed: the run goes on to the pop, or to
\* the end, as if the restore had succeeded
Restoring_popsOnFailure ==
    /\ pc = "Restoring"
    /\ gitCmds' = Append(gitCmds, RestoreCmd)
    /\ \/ /\ RestoreMatches(head)
          /\ fs' = RestoreTree(fs, head)
          /\ out' = out \cup { Msg("spinner", "Files restored successfully", RootDir) }
                        \cup IF stashCreated THEN {} ELSE DoneMsgs
       \/ /\ fs' = fs
          /\ out' = out \cup IF stashCreated THEN {} ELSE DoneMsgs
    /\ err' = err
    /\ pc' = IF stashCreated THEN "Popping" ELSE "Done"
    /\ trace' = Append(trace, pc')
    /\ UNCHANGED << lsCalls, answer, impl, opts, head, gitignored, stashList, filesToIgnore,
                    stashCreated, statusResult, rmCalls, exitCode, fs0, stash0,
                    fsWipe >>

\* Restoring followed by a pop that does not test stashCreated (index.ts 295)
Restoring_popsUnconditionally ==
    /\ pc = "Restoring"
    /\ gitCmds' = Append(gitCmds, RestoreCmd)
    /\ \/ /\ RestoreMatches(head)
          /\ fs' = RestoreTree(fs, head)
          /\ err' = err
          /\ pc' = "Popping"
          /\ trace' = Append(trace, "Popping")
          /\ out' = out \cup { Msg("spinner", "Files restored successfully", RootDir) }
       \/ /\ err' = Wrapped(RestoreFailedMsg)
          /\ pc' = "Failed"
          /\ UNCHANGED << fs, trace, out >>
    /\ UNCHANGED << lsCalls, answer, impl, opts, head, gitignored, stashList, filesToIgnore,
                    stashCreated, statusResult, rmCalls, exitCode, fs0, stash0,
                    fsWipe >>

\* index.ts 289-292, part_001 94-97
Restoring ==
    /\ pc = "Restoring"
    /\ gitCmds' = Append(gitCmds, RestoreCmd)
    /\ \/ /\ RestoreMatches(head)
          /\ fs' = RestoreTree(fs, head)
          /\ err' = err
          /\ IF stashCreated
             THEN /\ pc' = "Popping"
                  /\ trace' = Append(trace, "Popping")
                  /\ out' = out \cup { Msg("spinner", "Files restored successfully", RootDir) }
             ELSE /\ pc' = "Done"
                  /\ trace' = Append(trace, "Done")
                  /\ out' = out \cup { Msg("spinner", "Files restored successfully", RootDir) }
                                \cup DoneMsgs
       \/ /\ err' = Wrapped(RestoreFailedMsg)
          /\ pc' = "Failed"
          /\ UNCHANGED << fs, trace, out >>
    /\ UNCHANGED << lsCalls, answer, impl, opts, head, gitignored, stashList, filesToIgnore,
                    stashCreated, statusResult, rmCalls, exitCode, fs0, stash0,
                    fsWipe >>

\* Popping whose catch drops the stash entry it could not apply
Popping_dropsOnFailure ==
    /\ pc = "Popping"
    /\ \/ /\ stashList # << >>
          /\ PopApplies(fs, head, Head(stashList))
          /\ fs' = StashPopTree(fs, Head(stashList))
          /\ stashList' = Tail(stashList)
          /\ gitCmds' = Append(gitCmds, StashPopCmd)
          /\ out' = out \cup { Msg("spinner", "Stashed changes applied successfully", RootDir) }
                        \cup DoneMsgs
       \/ /\ \E applied \in PopProgress :
               fs' = IF stashList = << >> THEN fs
                     ELSE StashPopFailTree(fs, head, Head(stashList), applied)
          /\ stashList' = IF stashList = << >> THEN stashList ELSE Tail(stashList)
          /\ gitCmds' = gitCmds \o << StashPopCmd, "stash drop" >>
          /\ out' = out \cup { Msg("spinner", "Could not apply stashed changes (conflicts may exist)", RootDir),
                               Msg("log", StashListHint, RootDir) }
                        \cup DoneMsgs
    /\ pc' = "Done"
    /\ trace' = Append(trace, "Done")
    /\ UNCHANGED << lsCalls, answer, impl, opts, head, gitignored, filesToIgnore, stashCreated,
                    statusResult, rmCalls, err, exitCode, fs0, stash0, fsWipe >>

\* index.ts 294-310, part_001 99-111
Popping ==
    /\ pc = "Popping"
    /\ gitCmds' = Append(gitCmds, StashPopCmd)
    /\ \/ /\ stashList # << >>
          /\ PopApplies(fs, head, Head(stashList))
          /\ fs' = StashPopTree(fs, Head(stashList))
          /\ stashList' = Tail(stashList)
          /\ out' = out \cup { Msg("spinner", "Stashed changes applied successfully", RootDir) }
                        \cup DoneMsgs
       \/ /\ \E applied \in PopProgress :
               fs' = IF stashList = << >> THEN fs
                     ELSE StashPopFailTree(fs, head, Head(stashList), applied)
          /\ stashList' = stashList
          /\ out' = out \cup { Msg("spinner", "Could not apply stashed changes (conflicts may exist)", RootDir),
                               Msg("log", StashListHint, RootDir) }
                        \cup DoneMsgs
    /\ pc' = "Done"
    /\ trace' = Append(trace, "Done")
    /\ UNCHANGED << lsCalls, answer, impl, opts, head, gitignored, filesToIgnore, stashCreated,
                    statusResult, rmCalls, err, exitCode, fs0, stash0, fsWipe >>

\* CliExit whose catch prints the error and returns without process.exit(1)
CliExit_withoutExit ==
    /\ pc \in { "Done", "Failed" }
    /\ out' = IF pc = "Failed" THEN out \cup { Msg("error", "Error:", RootDir) } ELSE out
    /\ exitCode' = 0
    /\ pc' = "Exited"
    /\ UNCHANGED << lsCalls, answer, impl, opts, fs, head, gitignored, stashList, filesToIgnore,
                    stashCreated, trace, statusResult, gitCmds, rmCalls, err,
                    fs0, stash0, fsWipe >>

\* cli.ts 16-27: the action returns, or catches, prints and exits with 1
CliExit ==
    /\ pc \in { "Done", "Failed" }
    /\ IF pc = "Failed"
       THEN /\ out' = out \cup { Msg("error", "Error:", RootDir) }
            /\ exitCode' = 1
       ELSE /\ out' = out
            /\ exitCode' = 0
    /\ pc' = "Exited"
    /\ UNCHANGED << lsCalls, answer, impl, opts, fs, head, gitignored, stashList, filesToIgnore,
                    stashCreated, trace, statusResult, gitCmds, rmCalls, err,
                    fs0, stash0, fsWipe >>

Next ==
    \/ InitCheck
    \/ ResolveGlob
    \/ ResolveEnv
    \/ Prompt
    \/ DirtyCheck
    \/ Stashing
    \/ Wiping
    \/ Restoring
    \/ Popping
    \/ CliExit

Spec == Init /\ [][Next]_vars

TypeOK ==
    /\ impl \in { "index", "part_001" }
    /\ fs \in [ AllFiles -> 0..MaxVersion ]
    /\ head \in [ AllFiles -> 0..1 ]
    /\ Range(filesToIgnore) \subseteq AllEntries
    /\ stashCreated \in BOOLEAN
    /\ pc \in { "Init", "ResolveGlob", "ResolveEnv", "Prompt", "DirtyCheck", "Stashing",
                "Wiping", "Restoring", "Popping", "Done", "Failed", "Exited" }
    /\ Range(trace) \subseteq Phases
    /\ statusResult \in { "none", "changes", "clean", "failed" }
    /\ rmCalls \subseteq AllEntries
    /\ exitCode \in { -1, 0, 1 }

-----------------------------------------------------------------------------
(* The wipe on its own: any tree, any protected set, any fault *)

\* the files of the trees the wipe is run on
WipeFiles == RunFiles \cup { <<"d", "e", "m.local">>, <<".git", "HEAD">> }

\* their paths and the paths of the directories that hold them
WipeEntries == WipeFiles \cup UNION { { SubSeq(f, 1, n) : n \in 1..(Len(f) - 1) } : f \in WipeFiles }

\* the protected sets handed to the wipe, as removeAllExceptGitAndIgnored
\* receives them (a list of paths), members that do not exist included
ProtectedLists == { sort(P) : P \in SubsetsUpTo(WipeEntries, MaxProtected) }

InitWipe ==
    /\ impl \in { "index", "part_001" }
    /\ opts = NoFlags
    /\ head = [ f \in AllFiles |-> 0 ]
    /\ fs \in [ AllFiles -> 0..1 ]
    /\ fs[<<".git", "HEAD">>] = 1
    /\ \A f \in AllFiles \ WipeFiles : fs[f] = 0
    /\ gitignored = {}
    /\ stashList = << >>
    /\ filesToIgnore \in ProtectedLists
    /\ impl = "part_001" => filesToIgnore = << >>
    /\ stashCreated = FALSE
    /\ pc = "Wiping"
    /\ trace = << "Init", "DirtyCheck", "Wiping" >>
    /\ statusResult = "clean"
    /\ gitCmds = << StatusCmd >>
    /\ rmCalls = {}
    /\ out = { Msg("log", "No changes to stash", RootDir) }
    /\ err = NoError
    /\ exitCode = -1
    /\ fs0 = fs
    /\ stash0 = stashList
    /\ fsWipe = fs
    /\ answer = NoAnswer
    /\ lsCalls = {}

NextWipe == Wiping

SpecWipe == InitWipe /\ [][NextWipe]_vars

-----------------------------------------------------------------------------
(* The resolution of the protected set on its own: any flags, any tree *)

\* the files of the trees the protected set is resolved on
ResolveFiles == { <<"a.txt">>, <<"s.local">>, <<".env">>, <<".env.local">>, <<"d", "k.local">> }

InitResolve ==
    /\ impl = "index"
    /\ opts \in [ ignoreEnvFiles : BOOLEAN, skipConfirmation : BOOLEAN,
                  ignoreGlobFiles : GlobPatterns \cup { NoPattern } ]
    /\ head = [ f \in AllFiles |-> 0 ]
    /\ fs \in [ AllFiles -> 0..1 ]
    /\ fs[<<".git", "HEAD">>] = 1
    /\ \A f \in AllFiles \ (ResolveFiles \cup { <<".git", "HEAD">> }) : fs[f] = 0
    /\ gitignored = {}
    /\ stashList = << >>
    /\ filesToIgnore = << >>
    /\ stashCreated = FALSE
    /\ pc = "ResolveGlob"
    /\ trace = << "Init" >>
    /\ statusResult = "none"
    /\ gitCmds = << >>
    /\ rmCalls = {}
    /\ out = {}
    /\ err = NoError
    /\ exitCode = -1
    /\ fs0 = fs
    /\ stash0 = stashList
    /\ fsWipe = fs
    /\ answer = NoAnswer
    /\ lsCalls = {}

NextResolve ==
    \/ ResolveGlob
    \/ ResolveEnv
    \/ Prompt

SpecResolve == InitResolve /\ [][NextResolve]_vars

-----------------------------------------------------------------------------
(* The matcher on its own: any pattern, any tree *)

\* the files of the trees the matcher is run on: a dependency cache at the
\* root and one inside a directory among them
MatchFiles == { <<".env">>, <<"a.txt">>, <<"d", "k.local">>, <<"node_modules", ".env">>,
                <<"d", "node_modules", ".env">>, <<".git", "HEAD">> }

\* the patterns handed to findGlobFiles
MatchPatterns == GlobPatterns \cup { PatStar, PatAnyStar, PatDotStar, PatAnyEnv }

InitMatch ==
    /\ impl = "index"
    /\ opts \in [ ignoreEnvFiles : BOOLEAN, skipConfirmation : { TRUE },
                  ignoreGlobFiles : MatchPatterns ]
    /\ head = [ f \in MatchFiles |-> 0 ]
    /\ fs \in [ MatchFiles -> 0..1 ]
    /\ fs[<<".git", "HEAD">>] = 1
    /\ gitignored = {}
    /\ stashList = << >>
    /\ filesToIgnore = << >>
    /\ stashCreated = FALSE
    /\ pc = "ResolveGlob"
    /\ trace = << "Init" >>
    /\ statusResult = "none"
    /\ gitCmds = << >>
    /\ rmCalls = {}
    /\ out = {}
    /\ err = NoError
    /\ exitCode = -1
    /\ fs0 = fs
    /\ stash0 = stashList
    /\ fsWipe = fs
    /\ answer = NoAnswer
    /\ lsCalls = {}

NextMatch ==
    \/ ResolveGlob
    \/ ResolveEnv

SpecMatch == InitMatch /\ [][NextMatch]_vars

-----------------------------------------------------------------------------
(* Properties *)

Printed(text) == \E m \in out : m.text = text

Warned == \E m \in out : m.via = "warn"

Protected == Range(filesToIgnore)

\* e is a directory on the way to a member of P
AncestorOfProtected(e) == \E p \in Protected : startsWithDir(p, e)

\* e lies beneath a member of P
BeneathProtected(e) == \E p \in Protected : startsWithDir(e, p)

InGitDir(e) == e = GitDir \/ startsWithDir(e, GitDir)

RunEnded == pc \in { "Done", "Failed", "Exited" }

\* C1: whenever the Wiping phase begins, the working tree holds no
\* uncommitted change (modified, deleted or untracked file git reports) or a
\* stash was created earlier in the run, whatever the dirty-state query did.
C1_WipeOnlyWhenCleanOrStashed ==
    pc = "Wiping" => Changes(fs, head, gitignored) = {} \/ stashCreated

\* C2: if the repository is dirty and stash creation fails, the run ends
\* fatally, Wiping, Restoring and Popping are never entered, nothing is handed
\* to rmSync and the tree is exactly the tree the run started on.
C2_StashFailureAbortsBeforeWipe ==
    Printed("Failed to stash changes") =>
        /\ statusResult = "changes"
        /\ pc \in { "Failed", "Exited" }
        /\ err = Wrapped(StashFailedMsg)
        /\ Range(trace) \cap { "Wiping", "Restoring", "Popping", "Done" } = {}
        /\ rmCalls = {}
        /\ fs = fs0
        /\ stashList = stash0
        /\ pc = "Exited" => exitCode = 1

\* C2 witness: a dirty tree with files, the stash push failed, the process exited
C2_Witness ==
    /\ Printed("Failed to stash changes")
    /\ pc = "Exited"
    /\ Files(fs0) \cap WorkFiles # {}
    /\ Changes(fs0, head, gitignored) # {}

\* C3: every protected path that exists when the wipe starts still exists,
\* with everything beneath it unchanged, when the wipe ends, at the root or
\* nested, whichever deletions fail.
C3_ProtectedSurviveWipe ==
    pc \in { "Restoring", "Failed" } =>
        \A p \in Protected :
            existsSync(fsWipe, p) =>
                /\ existsSync(fs, p)
                /\ \A f \in Under(p) : fs[f] = fsWipe[f]

\* C3 witness: a wipe that deleted something, hit a fault, and kept a
\* protected file nested three levels deep
C3_Witness ==
    /\ pc = "Restoring"
    /\ <<"d", "e", "m.local">> \in Protected
    /\ fs[<<"d", "e", "m.local">>] # 0
    /\ rmCalls # {}
    /\ fs # fsWipe
    /\ Warned

\* C4: when no deletion fails, after the wipe no entry remains that is not
\* protected, not an ancestor of a protected path and not .git; the children
\* of a directory kept as an ancestor are deleted unless protected themselves.
\* (Entries inside .git and entries beneath a protected directory are left
\* out: they are kept by the other clauses of the contract.)
C4_UnprotectedRemoved ==
    (pc = "Restoring" /\ impl = "index" /\ ~ Warned) =>
        \A e \in Entries(fsWipe) :
            (/\ ~ InGitDir(e)
             /\ e \notin Protected
             /\ ~ AncestorOfProtected(e)
             /\ ~ BeneathProtected(e)) => ~ existsSync(fs, e)

\* C5: .git is never handed to rmSync, nor is anything inside it, and the
\* wipe leaves it in place, for every protected set, the empty set and a set
\* that names .git or a path inside it included.
C5_GitDirNeverDeleted ==
    /\ \A r \in rmCalls : ~ InGitDir(r)
    /\ existsSync(fs0, GitDir) => existsSync(fs, GitDir)
    /\ \A f \in Under(GitDir) : fs[f] = fs0[f]

\* C5 witness: a wipe that deleted entries while the protected set named a
\* path inside .git
C5_Witness ==
    /\ pc = "Restoring"
    /\ rmCalls # {}
    /\ <<".git", "HEAD">> \in Protected
    /\ existsSync(fs, GitDir)

\* C6: in a dirty repository, a protected path that is an untracked file
\* keeps its content in every state of the run, the stash included, also
\* when the final pop fails.
C6_ProtectedUntrackedNeverRemoved ==
    \A p \in Protected \cap AllFiles :
        (/\ Changes(fs0, head, gitignored) # {}
         /\ head[p] = 0
         /\ fs0[p] # 0) => fs[p] = fs0[p]

C8_StashResolvedOrReported ==
    (RunEnded /\ stashCreated /\ "Restoring" \in Range(trace)) =>
        \/ Printed("Stashed changes applied successfully")
        \/ Printed(StashListHint)

\* C9: if the stash pop fails, the run reaches Done and reports success,
\* prints the hint to inspect the stash list, issues no git command besides
\* status, stash push, restore and stash pop, and the stash entry of the run
\* is still on top of the stash list.
C9_PopFailureKeepsStash ==
    Printed("Could not apply stashed changes (conflicts may exist)") =>
        /\ pc \in { "Done", "Exited" }
        /\ trace[Len(trace)] = "Done"
        /\ Printed(SuccessMsg)
        /\ Printed(StashListHint)
        /\ err = NoError
        /\ pc = "Exited" => exitCode = 0
        /\ Range(gitCmds) \subseteq { StatusCmd, StashPushCmd, RestoreCmd, StashPopCmd }
        /\ stashList # << >>
        /\ Head(stashList).msg = "git-fresh: temporary stash"
        /\ Tail(stashList) = stash0

\* C9 witness: the pop failed in a repository that already had a stash
\* entry, and the process has exited
C9_Witness ==
    /\ Printed("Could not apply stashed changes (conflicts may exist)")
    /\ pc = "Exited"
    /\ stash0 # << >>

\* hasChangesToStash returned false
ReportedClean == statusResult \in { "clean", "failed" }

CleanPhases == << "Init", "DirtyCheck", "Wiping", "Restoring", "Done" >>

PhaseOrder == << "Init", "DirtyCheck", "Stashing", "Wiping", "Restoring", "Popping", "Done" >>

PhaseRank(p) == CHOOSE i \in DOMAIN PhaseOrder : PhaseOrder[i] = p

\* the steps from one phase to the next: Stashing and Popping may be left out
PhaseSteps ==
    { << "Init", "DirtyCheck" >>, << "DirtyCheck", "Stashing" >>, << "DirtyCheck", "Wiping" >>,
      << "Stashing", "Wiping" >>, << "Wiping", "Restoring" >>, << "Restoring", "Popping" >>,
      << "Restoring", "Done" >>, << "Popping", "Done" >> }

\* C11: the phases a run has entered are Init, DirtyCheck, Stashing
\* (optional), Wiping, Restoring, Popping (optional), Done in this order, as
\* far as the run got: no step backward, no phase twice. Wiping follows
\* Stashing only once the stash exists, Restoring is entered only once the
\* wipe has returned, and Popping is entered only after a restore that
\* succeeded and only in a run that created a stash.
C11_PhasesInOrder ==
    /\ trace[1] = "Init"
    /\ \A i \in 1..(Len(trace) - 1) : << trace[i], trace[i + 1] >> \in PhaseSteps
    /\ \A i \in 1..(Len(trace) - 1) : PhaseRank(trace[i]) < PhaseRank(trace[i + 1])
    /\ pc \in Phases => trace[Len(trace)] = pc
    /\ ({ "Stashing", "Wiping" } \subseteq Range(trace)) =>
          /\ stashCreated
          /\ Printed("Changes stashed successfully")
          /\ StashPushCmd \in Range(gitCmds)
    /\ "Restoring" \in Range(trace) =>
          /\ Printed("Files removed successfully")
          /\ pc = "Restoring" => RestoreCmd \notin Range(gitCmds)
    /\ "Popping" \in Range(trace) =>
          /\ stashCreated
          /\ StashPushCmd \in Range(gitCmds)
          /\ RestoreCmd \in Range(gitCmds)
          /\ Printed("Files restored successfully")

\* C11 witness: a run that went through all seven phases
C11_Witness ==
    /\ trace = PhaseOrder
    /\ pc = "Exited"
    /\ rmCalls # {}

\* 'git restore .' was issued and did not succeed
RestoreFailed ==
    /\ RestoreCmd \in Range(gitCmds)
    /\ ~ Printed("Files restored successfully")

\* C12: if the restore of tracked content fails, the run ends fatally: the
\* caller receives the error of the git command wrapped by gitFresh's catch,
\* Popping is never entered, no stash pop is issued, Done is not reached and
\* the success message is not printed.
C12_RestoreFailureIsFatal ==
    RestoreFailed =>
        /\ pc \in { "Failed", "Exited" }
        /\ err.wrapped
        /\ err.msg = RestoreFailedMsg
        /\ trace[Len(trace)] = "Restoring"
        /\ Range(trace) \cap { "Popping", "Done" } = {}
        /\ StashPopCmd \notin Range(gitCmds)
        /\ gitCmds[Len(gitCmds)] = RestoreCmd
        /\ ~ Printed(SuccessMsg)
        /\ pc = "Exited" => exitCode = 1

\* C12 witness: the restore failed in a run that had created a stash, and
\* the process has exited
C12_Witness ==
    /\ RestoreFailed
    /\ stashCreated
    /\ pc = "Exited"

\* C13: if the current directory is not a Git repository, the run fails in
\* Init with the "not a Git repository" error, thrown outside the try block
\* and so not wrapped, before anything else happens: no pattern is resolved
\* (the protected list stays empty), no prompt is shown, no stash is created,
\* nothing is handed to rmSync, no git command is issued, the tree is
\* untouched, and the process exits with 1.
C13_NotARepositoryFailsInInit ==
    ~ isGitRepository(fs0) =>
        /\ pc \in { "Init", "Failed", "Exited" }
        /\ trace = << "Init" >>
        /\ pc # "Init" => err = [ wrapped |-> FALSE, msg |-> NotARepoMsg ]
        /\ filesToIgnore = << >>
        /\ answer = NoAnswer
        /\ out \subseteq { Msg("error", "Error:", RootDir) }
        /\ ~ stashCreated
        /\ stashList = stash0
        /\ gitCmds = << >>
        /\ rmCalls = {}
        /\ fs = fs0
        /\ pc = "Exited" => exitCode = 1

\* C13 witness: a directory without .git that holds files the flags would
\* protect and files the wipe would delete; the process has exited
C13_Witness ==
    /\ ~ isGitRepository(fs0)
    /\ pc = "Exited"
    /\ opts.ignoreEnvFiles
    /\ opts.ignoreGlobFiles = PatLocal
    /\ { <<".env">>, <<"s.local">>, <<"a.txt">> } \subseteq Files(fs0)

\* console.error of cli.ts 25 was called
ErrorPrinted == \E m \in out : m.via = "error"

\* C14: the process exits with code 0 exactly when the run reached Done, a
\* run whose stash pop failed included, and exits with code 1, after
\* console.error has printed the message, whenever gitFresh threw: not a
\* repository, stash push failed, restore failed, or any other error (a
\* rejected prompt, a failed listing of the root directory).
C14_ExitCodeTellsDone ==
    /\ pc # "Exited" => exitCode = -1
    /\ pc = "Exited" =>
          /\ exitCode \in { 0, 1 }
          /\ exitCode = 0 <=> "Done" \in Range(trace)
          /\ exitCode = 0 <=> err = NoError
          /\ exitCode = 1 <=> ErrorPrinted
          /\ (Printed("Failed to stash changes") \/ RestoreFailed \/ ~ isGitRepository(fs0)
                \/ answer.action = "rejected") => exitCode = 1
          /\ Printed("Could not apply stashed changes (conflicts may exist)") => exitCode = 0

\* C14 witness: the process has exited with 1 on an error thrown after the
\* stash was created
C14_Witness ==
    /\ pc = "Exited"
    /\ exitCode = 1
    /\ ErrorPrinted
    /\ stashCreated
    /\ err.wrapped

\* G: the matches of --ignore-glob-files on the tree the run started on
ExpectedGlob ==
    IF opts.ignoreGlobFiles = NoPattern THEN {} ELSE glob(opts.ignoreGlobFiles, fs0)

\* the env files detected on the tree the run started on
DetectedEnv ==
    { p \in Entries(fs0) : ~ globIgnored(p) /\ \E pattern \in EnvPatterns : MatchPath(pattern, p) }

\* E: the env files the flags and the user's answer ask to protect
ExpectedEnv ==
    IF ~ opts.ignoreEnvFiles THEN {}
    ELSE IF opts.skipConfirmation THEN DetectedEnv
    ELSE IF answer.action = "all" THEN DetectedEnv
    ELSE IF answer.action = "select" THEN answer.selectedFiles
    ELSE {}

\* the resolution of the protected set has finished
Resolved == impl = "index" /\ "DirtyCheck" \in Range(trace)

\* C15: once resolved, the protected list holds, as a set, exactly G union
\* E: G the matches of --ignore-glob-files (empty without the flag), E empty
\* without --ignore-env-files, all detected env files with
\* --skip-confirmation or the answer 'all', empty for 'none', the chosen
\* subset for 'select'. With no flag it is empty, and --skip-confirmation
\* without --ignore-env-files adds nothing to G.
C15_ProtectedIsGlobPlusEnv ==
    Resolved =>
        /\ Protected = ExpectedGlob \cup ExpectedEnv
        /\ answer.selectedFiles \subseteq DetectedEnv
        /\ (opts.ignoreGlobFiles = NoPattern /\ ~ opts.ignoreEnvFiles) => filesToIgnore = << >>
        /\ ~ opts.ignoreEnvFiles => Protected = ExpectedGlob

\* C15 witness: two env files detected, the user selected one of them, which
\* the glob pattern matches too, so that it is on the list twice
C15_Witness ==
    /\ Resolved
    /\ Cardinality(DetectedEnv) = 2
    /\ answer = [ action |-> "select", selectedFiles |-> { <<".env.local">> } ]
    /\ <<".env.local">> \in ExpectedGlob
    /\ ExpectedGlob \ DetectedEnv # {}
    /\ Len(filesToIgnore) > Cardinality(Protected)

\* selectEnvFilesToIgnore has listed the env files and asked (index.ts 84-97)
PromptShown == Printed("Environment files detected:")

\* the flags and the tree call for the prompt
PromptDue == opts.ignoreEnvFiles /\ ~ opts.skipConfirmation /\ DetectedEnv # {}

\* C16: the prompt is shown if and only if --ignore-env-files is set,
\* --skip-confirmation is not set and at least one env file was detected:
\* a run waits for the user, or has an answer, only when all three hold, and
\* a run for which all three hold does not get past the resolution of the
\* protected set without having asked.
C16_PromptIffEnvFilesAndNoSkip ==
    /\ (pc = "Prompt" \/ answer # NoAnswer) => PromptShown
    /\ PromptShown => PromptDue
    /\ ((pc = "Prompt" \/ Resolved) /\ ~ PromptShown) => ~ PromptDue
    /\ (Resolved /\ PromptShown) => answer.action \in { "all", "none", "select" }

\* C16 witness: the run waits for the user's answer, a glob pattern having
\* been resolved before
C16_Witness ==
    /\ pc = "Prompt"
    /\ opts.ignoreGlobFiles # NoPattern
    /\ filesToIgnore # << >>

\* nothing destructive has happened: no git command, no stash, no rmSync,
\* the tree and the stash list as the run found them
NothingTouched ==
    /\ gitCmds = << >>
    /\ ~ stashCreated
    /\ stashList = stash0
    /\ rmCalls = {}
    /\ fs = fs0

\* C17: while the run waits for the user's answer no stash has been created
\* and nothing has been deleted, no phase after Init has been entered, and a
\* prompt that rejects (error or abort) ends the run with the tree and the
\* stash list unchanged.
C17_PromptBeforeDestruction ==
    /\ pc = "Prompt" => (NothingTouched /\ trace = << "Init" >>)
    /\ answer.action = "rejected" =>
          /\ pc \in { "Failed", "Exited" }
          /\ NothingTouched
          /\ trace = << "Init" >>
          /\ err # NoError

\* C17 witness: the prompt rejected in a repository with uncommitted changes
\* and an earlier stash entry, and the process has exited
C17_Witness ==
    /\ answer.action = "rejected"
    /\ pc = "Exited"
    /\ Changes(fs0, head, gitignored) # {}
    /\ stash0 # << >>

\* the entries the walk of the wipe met: the immediate children of the root
WalkedItems == { << i >> : i \in readdirSync(fsWipe, RootDir) }

\* the walk skips the item: it is .git, protected, or on the way to a
\* protected path
Kept(item) == item = GitDir \/ item \in Protected \/ AncestorOfProtected(item)

\* the walk has warned that it could not remove the item
CouldNotRemove(item) == Msg("warn", "Warning: Could not remove", item) \in out

\* C18: a failure to stat or to delete one entry is caught and printed as a
\* warning and the walk goes on: every entry of the walked directory that is
\* not preserved is attempted (handed to rmSync, or warned about when stat
\* failed), an attempted entry remains exactly when the walk warned about
\* it, a preserved entry remains with everything beneath it as it was, and
\* nothing else remains.
C18_FailureDoesNotStopWalk ==
    pc = "Restoring" =>
        /\ \A item \in WalkedItems :
              /\ Kept(item) =>
                    /\ item \notin rmCalls
                    /\ ~ CouldNotRemove(item)
                    /\ \A f \in Under(item) : fs[f] = fsWipe[f]
              /\ ~ Kept(item) =>
                    /\ item \in rmCalls \/ CouldNotRemove(item)
                    /\ item \in Entries(fs) <=> CouldNotRemove(item)
        /\ \A e \in Entries(fs) :
              \E item \in WalkedItems :
                /\ e = item \/ startsWithDir(e, item)
                /\ Kept(item) \/ CouldNotRemove(item)
        /\ \A m \in out : m.via = "warn" => m.path \in WalkedItems /\ ~ Kept(m.path)

\* C18 witness: the wipe with a protected path could not remove one entry
\* and removed another entry of the same directory
C18_Witness ==
    /\ pc = "Restoring"
    /\ impl = "index"
    /\ Protected \cap Entries(fsWipe) # {}
    /\ \E i, j \in WalkedItems :
          /\ i # j
          /\ CouldNotRemove(i)
          /\ i \in Entries(fs)
          /\ ~ Kept(j)
          /\ j \in rmCalls
          /\ j \notin Entries(fs)

\* C19: once Wiping has begun it completes without raising an error and
\* Restoring is entered next, whichever deletion, stat or listing fails, the
\* listing of the root directory included.
C19_WipeAlwaysCompletes ==
    ("Wiping" \in Range(trace) /\ pc # "Wiping") =>
        /\ "Restoring" \in Range(trace)
        /\ Printed("Files removed successfully")

\* C20: when at least one entry could not be removed, what the orchestrator
\* reports of the Wiping phase differs from its report of a complete wipe:
\* it does not announce that the files were removed successfully.
C20_PartialWipeIsReported ==
    (pc = "Restoring" /\ \E item \in WalkedItems : CouldNotRemove(item) /\ item \in Entries(fs)) =>
        Msg("spinner", "Files removed successfully", RootDir) \notin out

\* p is the .git directory of the root or lies inside it
InRootGit(p) == p[1] = ".git"

\* p lies inside a directory named node_modules, wherever that directory is
InDependencyCache(p) == \E i \in 1..(Len(p) - 1) : p[i] = "node_modules"

\* C21: no path the matcher returns (the matches of the glob pattern, the
\* detected env files) is the .git directory, lies inside it, or lies inside
\* a node_modules directory at whatever depth.
C21_MatcherSkipsGitAndDependencyCaches ==
    \A p \in Range(filesToIgnore) : ~ InRootGit(p) /\ ~ InDependencyCache(p)

\* the name of the entry starts with a dot
Hidden(p) == Head(Tok(p[Len(p)])) = "."

\* the last segment of the pattern starts with a literal dot
ExplicitDot(pattern) == Head(pattern[Len(pattern)]) = "."

\* findGlobFiles has returned and its matches are the protected list
GlobResolved == pc = "ResolveEnv" /\ opts.ignoreGlobFiles # NoPattern

\* C22 as stated: a hidden entry is among the matches of the user's pattern
\* only when the matching segment of the pattern starts with a literal dot.
C22_HiddenOnlyWhenAsked ==
    GlobResolved =>
        \A p \in Range(filesToIgnore) : Hidden(p) => ExplicitDot(opts.ignoreGlobFiles)

\* C22 amended: the matcher runs with dot: true, so a wildcard matches a
\* leading dot too: '*' returns every entry of the root, the hidden ones
\* included, and '**/*' every entry of the tree, except the .git and
\* node_modules of the root and what lies beneath them; a hidden entry is
\* returned only for a pattern whose last segment starts with a literal dot
\* or with a wildcard.
C22_WildcardsMatchHidden ==
    GlobResolved =>
        /\ opts.ignoreGlobFiles = PatStar =>
              Range(filesToIgnore) =
                { << n >> : n \in readdirSync(fs0, RootDir) \ { ".git", "node_modules" } }
        /\ opts.ignoreGlobFiles = PatAnyStar =>
              Range(filesToIgnore) =
                { e \in Entries(fs0) : e[1] \notin { ".git", "node_modules" } }
        /\ \A e \in Entries(fs0) :
              (Hidden(e) /\ Len(e) = 1 /\ e # GitDir /\ opts.ignoreGlobFiles \in { PatStar, PatDotStar })
                 => e \in Range(filesToIgnore)
        /\ \A p \in Range(filesToIgnore) :
              Hidden(p) => Head(opts.ignoreGlobFiles[Len(opts.ignoreGlobFiles)]) \in { ".", "*", "**" }

\* C22 witness: '*' has returned the hidden .env next to a.txt
C22_Witness ==
    /\ GlobResolved
    /\ opts.ignoreGlobFiles = PatStar
    /\ { <<".env">>, <<"a.txt">> } \subseteq Range(filesToIgnore)

\* the wipe has run: the walk of removeAllExceptGitAndIgnored, or of
\* removeAllExceptGit, has returned or thrown
Wiped == "Wiping" \in Range(trace) /\ pc # "Wiping"

====
